---------------------------- MODULE Spec2Model ----------------------------
(***************************************************************************)
(* A model of package face (skin.go): SkinMask with its two walkers        *)
(* (skinMaskColor, skinMaskColorRGBA) and Content with its two walkers     *)
(* (the per-pixel loop of Content, contentRGBA).                           *)
(*                                                                         *)
(* Images are modelled as Go's image package lays them out: a rectangle    *)
(* Rect (Min inclusive, Max exclusive), a row Stride and a flat buffer Pix *)
(* indexed from 0.  A source of kind "RGBA" is an *image.RGBA; a source of *)
(* kind "Image" is any other image.Image holding the same 8-bit colours    *)
(* (its At returns color.RGBA values, the type assertion to *image.RGBA    *)
(* fails).  A mask of kind "Alpha" is an *image.Alpha, one of kind "Gray"  *)
(* an *image.Gray (a draw.Image that is not an *image.Alpha); both store   *)
(* one byte per cell.  Nil is the nil mask.                                *)
(*                                                                         *)
(* A buffer with Stride larger than the row of its Rect is what SubImage   *)
(* of a larger image returns; the bytes between the rows belong to the     *)
(* parent image.                                                           *)
(***************************************************************************)
EXTENDS Integers, Sequences, FiniteSets, TLC

VARIABLES src, mask, ret, region, content

vars == <<src, mask, ret, region, content>>

\* ------------------------------------------------------------------ bounds

\* Largest width and height of a source given to SkinMask.
MaxDim == 2
\* Largest number of parent pixels (cells) between two rows of a buffer.
MaxPad == 1
\* Largest coordinate of a source's Min corner.
MaxOrigin == 1

\* ------------------------------------------------------- integer widths

Uint8(v) == v % 256

\* The uint32 difference r - g of two channels below 2^16, compared with a
\* constant c below 2^16: d is the true difference; a negative d wraps to
\* 2^32 + d, which is above every such c.
Uint32Less(d, c) == d >= 0 /\ d < c

Uint32Greater(d, c) == d < 0 \/ d > c

\* ------------------------------------------------------------ rectangles

Rectangle(x0, y0, x1, y1) == [MinX |-> x0, MinY |-> y0, MaxX |-> x1, MaxY |-> y1]

Dx(r) == r.MaxX - r.MinX

Dy(r) == r.MaxY - r.MinY

\* image.Point{x, y}.In(r)
In(x, y, r) == r.MinX <= x /\ x < r.MaxX /\ r.MinY <= y /\ y < r.MaxY

\* The non-empty rectangles inside r.
SubRects(r) ==
    { q \in [MinX : r.MinX .. r.MaxX, MinY : r.MinY .. r.MaxY,
             MaxX : r.MinX .. r.MaxX, MaxY : r.MinY .. r.MaxY] :
        q.MinX < q.MaxX /\ q.MinY < q.MaxY }

\* ---------------------------------------------------------------- images

Nil == [kind |-> "nil"]

NoCall == [call |-> [path |-> "none"], arg |-> Nil]

\* (*image.RGBA).PixOffset
PixOffsetRGBA(img, x, y) == (y - img.Rect.MinY) * img.Stride + (x - img.Rect.MinX) * 4

\* (*image.Alpha).PixOffset, (*image.Gray).PixOffset
PixOffsetAlpha(img, x, y) == (y - img.Rect.MinY) * img.Stride + (x - img.Rect.MinX)

\* src.At(x, y): the stored colour inside Rect, the zero colour outside.
At(img, x, y) ==
    IF In(x, y, img.Rect)
    THEN LET i == PixOffsetRGBA(img, x, y)
         IN  [R |-> img.Pix[i], G |-> img.Pix[i + 1], B |-> img.Pix[i + 2], A |-> img.Pix[i + 3]]
    ELSE [R |-> 0, G |-> 0, B |-> 0, A |-> 0]

\* color.RGBA.RGBA(): each 8-bit channel c becomes c | c<<8.
RGBA16(c) == [R |-> c.R * 256 + c.R, G |-> c.G * 256 + c.G,
              B |-> c.B * 256 + c.B, A |-> c.A * 256 + c.A]

\* mask.Set(x, y, color.Opaque): 0xff in the cell, nothing outside Rect.
SetOpaque(m, x, y) ==
    IF In(x, y, m.Rect)
    THEN [m EXCEPT !.Pix = [m.Pix EXCEPT ![PixOffsetAlpha(m, x, y)] = 255]]
    ELSE m

\* image.NewAlpha(r): a zeroed buffer with Stride = Dx.
NewAlpha(r, id) ==
    [kind |-> "Alpha", id |-> id, Rect |-> r, Stride |-> Dx(r),
     Pix |-> [i \in 0 .. Dx(r) * Dy(r) - 1 |-> 0]]

\* ------------------------------------------------------------ skin rule

\* skinMaskColor's constants.  The source writes them "75 << 8 || 75"; they
\* are read as the 16-bit scaling 75<<8 | 75 of the 8-bit threshold, the
\* scale of the channels color.RGBA.RGBA() returns.
ShlOr(v) == v * 256 + v

minR == ShlOr(75)

minRGdelta == ShlOr(20)

maxRGdelta == ShlOr(90)

\* skinMaskColorRGBA's constants.
minR8 == 75

minRGdelta8 == 20

maxRGdelta8 == 90

\* float32(r)/float32(g) >= maxRGrat with maxRGrat = 2.5.  A zero g gives
\* +Inf (r > 0) or NaN (r = 0); for the integers below 2^16 compared here
\* the rounded quotient is >= 2.5 exactly when 2r >= 5g.
RatGE(r, g) == IF g = 0 THEN r # 0 ELSE 2 * r >= 5 * g

\* The three tests of skinMaskColor's loop on uint32 channels.
skinColor(r, g) ==
    /\ ~(r < minR)
    /\ ~(Uint32Less(r - g, minRGdelta) \/ Uint32Greater(r - g, maxRGdelta))
    /\ ~RatGE(r, g)

\* The three tests of skinMaskColorRGBA's loop on uint8 channels.
skinColorRGBA(r, g) ==
    /\ ~(r < minR8)
    /\ ~(Uint8(r - g) < minRGdelta8 \/ Uint8(r - g) > maxRGdelta8)
    /\ ~RatGE(r, g)

\* ------------------------------------------------------- the mask engine

\* The generic loop of skinMaskColor, step k of the walk
\* y := Min.Y .. Max.Y, x := Min.X .. Max.X (both ends included).
RECURSIVE skinMaskLoop(_, _, _, _)
skinMaskLoop(s, r, k, acc) ==
    IF k = (Dx(r) + 1) * (Dy(r) + 1)
    THEN acc
    ELSE LET x == r.MinX + (k % (Dx(r) + 1))
             y == r.MinY + (k \div (Dx(r) + 1))
             c == RGBA16(At(s, x, y))
             a == [acc EXCEPT !.reads = @ \cup {<<x, y>>}]
         IN  IF skinColor(c.R, c.G)
             THEN skinMaskLoop(s, r, k + 1,
                      [a EXCEPT !.mask = SetOpaque(@, x, y),
                                !.sets = @ \cup {<<x, y>>},
                                !.m = @ + 1])
             ELSE skinMaskLoop(s, r, k + 1, a)

\* The loop of skinMaskColorRGBA: sp walks the source buffer in steps of 4
\* until it equals ep, mp the mask buffer in steps of 1.
RECURSIVE skinMaskLoopRGBA(_, _, _, _, _)
skinMaskLoopRGBA(s, sp, ep, mp, acc) ==
    IF sp = ep
    THEN acc
    ELSE LET mp1 == mp + 1
         IN  IF sp + 1 \notin DOMAIN s.Pix
             THEN [acc EXCEPT !.panic = "index"]
             ELSE LET g == s.Pix[sp + 1]
                      r == s.Pix[sp]
                      skin == skinColorRGBA(r, g)
                      a == [acc EXCEPT !.steps = Append(@, [sp |-> sp, mp |-> mp1, set |-> skin])]
                  IN  IF ~skin
                      THEN skinMaskLoopRGBA(s, sp + 4, ep, mp1, a)
                      ELSE IF mp1 \notin DOMAIN a.mask.Pix
                      THEN [a EXCEPT !.panic = "index"]
                      ELSE skinMaskLoopRGBA(s, sp + 4, ep, mp1,
                               [a EXCEPT !.mask.Pix[mp1] = 255, !.m = @ + 1])

Result(path, m) ==
    [path |-> path, panic |-> "none", mask |-> m, m |-> 0,
     den |-> Dx(m.Rect) * Dy(m.Rect), reads |-> {}, sets |-> {}, steps |-> <<>>]

skinMaskColorRGBA(s, m) ==
    LET r == m.Rect
    IN  IF s.Rect # r
        THEN [Result("fast", m) EXCEPT !.panic = "subimage"]
        ELSE skinMaskLoopRGBA(s,
                 (r.MinY - s.Rect.MinY) * s.Stride + (r.MinX - s.Rect.MinX) * 4,
                 Dx(r) * Dy(r) * 4, -1, Result("fast", m))

\* The fast-path test without its comparison of the bounds.
FastPathNoBounds(s, m) == s.kind = "RGBA" /\ m.kind = "Alpha"

\* skinMaskColor's test for the fast path; amask is whether the mask is an
\* *image.Alpha (a freshly allocated one is).
FastPath(s, m) == s.Rect = m.Rect /\ s.kind = "RGBA" /\ m.kind = "Alpha"

skinMaskColor(s, m0) ==
    LET m == IF m0.kind = "nil" THEN NewAlpha(s.Rect, 2) ELSE m0
    IN  IF FastPath(s, m)
        THEN skinMaskColorRGBA(s, m)
        ELSE skinMaskLoop(s, m.Rect, 0, Result("generic", m))

\* --------------------------------------------------------------- inputs

\* 8-bit colours: a skin tone; a dark pixel; a pixel whose green exceeds its
\* red by more than 165; a pixel with no green; black; two greys.
Skin == [R |-> 150, G |-> 110, B |-> 60, A |-> 255]

Dark == [R |-> 30, G |-> 20, B |-> 10, A |-> 255]

Green == [R |-> 80, G |-> 250, B |-> 40, A |-> 255]

NoGreen == [R |-> 100, G |-> 0, B |-> 0, A |-> 255]

Black == [R |-> 0, G |-> 0, B |-> 0, A |-> 255]

Grey10 == [R |-> 10, G |-> 10, B |-> 10, A |-> 255]

Grey100 == [R |-> 100, G |-> 100, B |-> 100, A |-> 255]

Channel(c, j) == CASE j = 0 -> c.R [] j = 1 -> c.G [] j = 2 -> c.B [] OTHER -> c.A

\* The pixels a buffer of w x h pixels with pad parent pixels between its
\* rows holds: the last row ends the buffer.
Slots(w, h, pad) == (h - 1) * (w + pad) + w

\* A source with rectangle r: every pixel of the buffer has colour base but
\* pixel pos, which has colour hi (pos = -1: none).
MakeSource(kind, r, pad, base, hi, pos) ==
    [kind |-> kind, Rect |-> r, Stride |-> 4 * (Dx(r) + pad),
     Pix |-> [i \in 0 .. 4 * Slots(Dx(r), Dy(r), pad) - 1 |->
                 Channel(IF i \div 4 = pos THEN hi ELSE base, i % 4)]]

\* A caller's mask with rectangle r, every cell holding v.
MakeMask(kind, r, pad, v) ==
    [kind |-> kind, id |-> 1, Rect |-> r, Stride |-> Dx(r) + pad,
     Pix |-> [i \in 0 .. Slots(Dx(r), Dy(r), pad) - 1 |-> v]]

\* <<base, hi>> pairs of the sources given to SkinMask.
SkinColours == {<<Dark, Skin>>, <<Dark, Green>>, <<Dark, NoGreen>>, <<Skin, Dark>>}

\* *image.RGBA sources, also sub-images (pad > 0), and other images.
SkinSources ==
    { MakeSource("RGBA", Rectangle(o, o, o + w, o + h), pad, c[1], c[2], pos) :
        o \in 0 .. MaxOrigin, w \in 1 .. MaxDim, h \in 1 .. MaxDim,
        pad \in 0 .. MaxPad, c \in SkinColours,
        pos \in -1 .. Slots(MaxDim, MaxDim, MaxPad) - 1 } \cup
    { MakeSource("Image", Rectangle(o, o, o + w, o + h), 0, c[1], c[2], pos) :
        o \in 0 .. MaxOrigin, w \in 1 .. MaxDim, h \in 1 .. MaxDim,
        c \in SkinColours, pos \in -1 .. Slots(MaxDim, MaxDim, 0) - 1 }

\* The mask arguments for source s: nil, an *image.Alpha (also a sub-image)
\* with earlier contents, or an *image.Gray, over a rectangle inside s.Rect.
Masks(s) ==
    {Nil} \cup
    { MakeMask("Alpha", r, pad, v) :
        r \in SubRects(s.Rect), pad \in 0 .. MaxPad, v \in {0, 7} } \cup
    { MakeMask("Gray", r, 0, 7) : r \in SubRects(s.Rect) }

\* -------------------------------------------------------------- SkinMask

Init ==
    /\ src \in SkinSources
    /\ mask \in Masks(src)
    /\ ret = NoCall
    /\ region = src.Rect
    /\ content = [path |-> "none"]

\* SkinMask(src, mask): the result, with the mask argument as it was.
SkinMask(s, m) == [call |-> skinMaskColor(s, m), arg |-> m]

\* SkinMask(src, nil): the caller keeps the mask it is returned.
SkinMaskNil ==
    /\ mask.kind = "nil"
    /\ ret' = SkinMask(src, mask)
    /\ mask' = ret'.call.mask
    /\ UNCHANGED <<src, region, content>>

\* SkinMask(src, mask) with the caller's mask, also one an earlier call
\* returned.
SkinMaskGiven ==
    /\ mask.kind # "nil"
    /\ ret' = SkinMask(src, mask)
    /\ mask' = ret'.call.mask
    /\ UNCHANGED <<src, region, content>>

Next == SkinMaskNil \/ SkinMaskGiven

Spec == Init /\ [][Next]_vars

\* ---------------------------------------------------- the content engine

threshold == 64

\* The buckets of the generic path's histogram, C := [256 * 3]byte{}.
Buckets == 256 * 3

\* The buckets of contentRGBA's histogram, C := [256]byte{}.
BucketsRGBA == 256

\* The closing loop of both walkers: the number of buckets above threshold,
\* at most 255, as a byte.
Posterized(C) ==
    LET n == Cardinality({i \in DOMAIN C : C[i] > threshold})
    IN  Uint8(IF n > 255 THEN 255 ELSE n)

\* The pixel pass k of Content's generic walk
\* y := Min.Y .. Max.Y, x := Min.X .. Max.X (both ends included) reads, and
\* the bucket it counts in: the channels are shifted down to 8 bits, Y is
\* their mean and byte(Y) the bucket.
contentPixel(s, r, k) ==
    LET x == r.MinX + (k % (Dx(r) + 1))
        y == r.MinY + (k \div (Dx(r) + 1))
        c8 == At(s, x, y)
        c == RGBA16(c8)
        Y == ((c.R \div 256) + (c.G \div 256) + (c.B \div 256)) \div 3
    IN  [R |-> c8.R, G |-> c8.G, B |-> c8.B, bucket |-> Uint8(Y)]

\* Passes lo .. hi-1 of the generic loop, in order: the byte counter of
\* each pass's bucket goes up by one.  (The passes are split in halves, the
\* first half evaluated before the second, to keep the evaluation shallow.)
RECURSIVE contentLoop(_, _, _, _, _)
contentLoop(s, r, lo, hi, acc) ==
    IF hi <= lo THEN acc
    ELSE IF hi = lo + 1
    THEN [acc EXCEPT !.C[contentPixel(s, r, lo).bucket] = Uint8(@ + 1),
                     !.walked = @ + 1]
    ELSE LET mid == (lo + hi) \div 2
             half == contentLoop(s, r, lo, mid, acc)
         IN  IF half.walked >= 0 THEN contentLoop(s, r, mid, hi, half) ELSE acc

\* The pixel contentRGBA's loop reads at offset sp, and the bucket it counts
\* in: the three channels are added as uint8.
contentPixelRGBA(s, sp) ==
    [R |-> s.Pix[sp], G |-> s.Pix[sp + 1], B |-> s.Pix[sp + 2],
     bucket |-> Uint8(Uint8(s.Pix[sp] + s.Pix[sp + 1]) + s.Pix[sp + 2]) \div 3]

\* The loop of contentRGBA from sp until sp = ep in steps of 4 (4 divides
\* ep - sp, which is not negative), in order, split in halves as above.
RECURSIVE contentLoopRGBA(_, _, _, _)
contentLoopRGBA(s, sp, ep, acc) ==
    IF sp = ep THEN acc
    ELSE IF ep = sp + 4
    THEN [acc EXCEPT !.C[contentPixelRGBA(s, sp).bucket] = Uint8(@ + 1),
                     !.walked = @ + 1]
    ELSE LET mid == sp + 4 * ((ep - sp) \div 8)
             half == contentLoopRGBA(s, sp, mid, acc)
         IN  IF half.walked >= 0 THEN contentLoopRGBA(s, mid, ep, half) ELSE acc

Histogram(n) == [C |-> [i \in 0 .. n - 1 |-> 0], walked |-> 0]

\* What a call of Content leaves: the path taken, the score returned, the
\* pixels read with their buckets (pixels), the number of passes (walked)
\* and the buckets the closing loop found above threshold (over).
Scored(path, h, pixels) ==
    [path |-> path, score |-> Posterized(h.C), pixels |-> pixels, walked |-> h.walked,
     over |-> {i \in DOMAIN h.C : h.C[i] > threshold}]

contentRGBA(s) ==
    LET r == s.Rect
        sp == (r.MinY - s.Rect.MinY) * s.Stride + (r.MinX - s.Rect.MinX) * 4
        ep == Dx(s.Rect) * Dy(s.Rect) * 4
    IN  Scored("fast", contentLoopRGBA(s, sp, ep, Histogram(BucketsRGBA)),
               { contentPixelRGBA(s, sp + 4 * k) : k \in 0 .. ((ep - sp) \div 4) - 1 })

\* Lines 42-63 of Content: the walk over r through src.At.
contentGeneric(s, r) ==
    Scored("generic", contentLoop(s, r, 0, (Dx(r) + 1) * (Dy(r) + 1), Histogram(Buckets)),
           { contentPixel(s, r, k) : k \in 0 .. (Dx(r) + 1) * (Dy(r) + 1) - 1 })

Content(s, r) ==
    IF s.Rect = r /\ s.kind = "RGBA"
    THEN contentRGBA(s)
    ELSE contentGeneric(s, r)

\* ------------------------------------------------------ Content's inputs

ContentWidths == {1, 16, 65}

ContentHeights == {1, 4, 16}

ContentColours == {<<Grey10, Grey100>>, <<Grey100, Skin>>, <<Black, Grey10>>, <<Skin, NoGreen>>}

ContentSources ==
    { MakeSource(kind, Rectangle(0, 0, w, h), 0, c[1], c[2], pos) :
        kind \in {"RGBA", "Image"}, w \in ContentWidths, h \in ContentHeights,
        c \in ContentColours, pos \in {-1, 0} }

\* The regions given with source s: its bounds, and the rectangle whose
\* walk with both ends included covers exactly its bounds.
Regions(s) ==
    {s.Rect, Rectangle(s.Rect.MinX, s.Rect.MinY, s.Rect.MaxX - 1, s.Rect.MaxY - 1)}

InitContent ==
    /\ src \in ContentSources
    /\ region \in Regions(src)
    /\ mask = Nil
    /\ ret = NoCall
    /\ content = [path |-> "none"]

ContentCall ==
    /\ content.path = "none"
    /\ content' = Content(src, region)
    /\ UNCHANGED <<src, mask, ret, region>>

NextContent == ContentCall

SpecContent == InitContent /\ [][NextContent]_vars

\* ------------------------------------------------------------ properties

\* A call of SkinMask has returned or panicked.
Called == ret.call.path # "none"

\* The skin rule on 8-bit channels with R - G the signed difference:
\* R >= 75, 20 <= R - G <= 90 and R / G < 2.5 (no G = 0 pixel is skin).
SkinRule(R, G) ==
    /\ R >= 75
    /\ 20 <= R - G /\ R - G <= 90
    /\ G # 0 /\ 2 * R < 5 * G

\* The coordinates of rectangle r.
Coords(r) == (r.MinX .. r.MaxX - 1) \X (r.MinY .. r.MaxY - 1)

\* The mask argument of the call was freshly allocated over the source's
\* bounds: nil, or what image.NewAlpha(src.Bounds()) returns.
FreshMask ==
    \/ ret.arg.kind = "nil"
    \/ /\ ret.arg.kind = "Alpha"
       /\ ret.arg.Rect = src.Rect
       /\ ret.arg.Stride = Dx(src.Rect)
       /\ \A i \in DOMAIN ret.arg.Pix : ret.arg.Pix[i] = 0

\* The cell of mask m at coordinate p.
Cell(m, p) == m.Pix[PixOffsetAlpha(m, p[1], p[2])]

\* C1: for a packed RGBA source and a freshly allocated Alpha mask over the
\* source's bounds, the specialized walker leaves the mask, cell for cell,
\* and the count of classified pixels that the generic walker leaves.
C1_PathEquivalence ==
    (Called /\ ret.call.path = "fast" /\ FreshMask) =>
        LET g == skinMaskLoop(src, src.Rect, 0, Result("generic", NewAlpha(src.Rect, 2)))
        IN  /\ ret.call.panic = "none"
            /\ ret.call.m = g.m
            /\ \A p \in Coords(src.Rect) : Cell(ret.call.mask, p) = Cell(g.mask, p)

\* C3: after a call on a mask holding no opaque cell, on either path, a
\* cell is opaque exactly if its source pixel satisfies the skin rule on
\* its 8-bit R and G; no pixel makes the call fault.
C3_SkinRule ==
    (Called /\ (ret.arg.kind # "nil" => \A i \in DOMAIN ret.arg.Pix : ret.arg.Pix[i] # 255)) =>
        /\ ret.call.panic = "none"
        /\ \A p \in Coords(ret.call.mask.Rect) :
               LET c == At(src, p[1], p[2])
               IN  (Cell(ret.call.mask, p) = 255) <=> SkinRule(c.R, c.G)

\* The pixels of the mask's region whose source pixel the path taken
\* classifies as skin.
Classified(path, r) ==
    { p \in Coords(r) :
        LET c == At(src, p[1], p[2])
        IN  IF path = "fast" THEN skinColorRGBA(c.R, c.G)
            ELSE skinColor(RGBA16(c).R, RGBA16(c).G) }

\* C4: the count of classified pixels a call returns is at most Dx*Dy of
\* the mask's bounds (coverage in [0,1]), 0 if no pixel of the region is
\* classified and Dx*Dy if every pixel is.
C4_CoverageBound ==
    (Called /\ ret.call.panic = "none") =>
        LET r == ret.call.mask.Rect
            skin == Classified(ret.call.path, r)
        IN  /\ 0 <= ret.call.m /\ ret.call.m <= ret.call.den
            /\ ret.call.den = Dx(r) * Dy(r)
            /\ (skin = {}) => ret.call.m = 0
            /\ (skin = Coords(r)) => ret.call.m = ret.call.den

\* The source coordinates a call read: those of the generic walk, and for
\* the specialized walk the pixel each offset sp lies in.
ReadCoords ==
    IF ret.call.path = "fast"
    THEN { <<src.Rect.MinX + ((ret.call.steps[i].sp % src.Stride) \div 4),
             src.Rect.MinY + (ret.call.steps[i].sp \div src.Stride)>> :
             i \in DOMAIN ret.call.steps }
    ELSE ret.call.reads

\* The mask coordinates a call wrote.
WrittenCoords ==
    IF ret.call.path = "fast"
    THEN LET m == ret.call.mask
         IN  { <<m.Rect.MinX + (ret.call.steps[i].mp % m.Stride),
                 m.Rect.MinY + (ret.call.steps[i].mp \div m.Stride)>> :
                 i \in {j \in DOMAIN ret.call.steps : ret.call.steps[j].set} }
    ELSE { p \in ret.call.sets : In(p[1], p[2], ret.call.mask.Rect) }

\* C7: every source coordinate a call reads and every mask coordinate it
\* writes lies in the mask's bounds (Min <= p < Max).
C7_MutationScope ==
    Called =>
        \A p \in ReadCoords \cup WrittenCoords : In(p[1], p[2], ret.call.mask.Rect)

\* The dispatch rule: a packed RGBA source, a nil or Alpha mask, and equal
\* bounds (a nil mask is allocated over the source's bounds).
FastPathRule ==
    /\ src.kind = "RGBA"
    /\ ret.arg.kind \in {"nil", "Alpha"}
    /\ ret.arg.kind = "Alpha" => ret.arg.Rect = src.Rect

\* C8: a call takes the specialized path exactly under the dispatch rule
\* and the generic path otherwise, and no call ends in the bounds-mismatch
\* panic of skinMaskColorRGBA.
C8_Dispatch ==
    Called =>
        /\ (ret.call.path = "fast") <=> FastPathRule
        /\ (ret.call.path = "generic") <=> ~FastPathRule
        /\ ret.call.panic # "subimage"

\* C8's case: an RGBA source and an Alpha mask whose bounds differ went
\* through the generic path.
C8_Witness ==
    /\ Called
    /\ src.kind = "RGBA" /\ ret.arg.kind = "Alpha" /\ ret.arg.Rect # src.Rect
    /\ ret.call.path = "generic" /\ ret.call.panic = "none"

\* C9: a call with the caller's mask returns that mask; each cell whose
\* source pixel the path taken does not classify holds its value of before
\* the call, and each cell that changed holds 255.
C9_MaskFrame ==
    (Called /\ ret.arg.kind # "nil") =>
        /\ ret.call.mask.id = ret.arg.id
        /\ ret.call.mask.Rect = ret.arg.Rect
        /\ \A p \in Coords(ret.arg.Rect) :
               /\ p \notin Classified(ret.call.path, ret.arg.Rect) =>
                      Cell(ret.call.mask, p) = Cell(ret.arg, p)
               /\ Cell(ret.call.mask, p) # Cell(ret.arg, p) =>
                      Cell(ret.call.mask, p) = 255

\* C10: on the specialized path the walk ends after Dx*Dy steps, step k
\* reads at the offset of source pixel (Min.X + k mod Dx, Min.Y + k div Dx)
\* and writes (if at all) at the offset of that coordinate's mask cell,
\* every index inside its buffer.
C10_WalkValidity ==
    (Called /\ ret.call.path = "fast") =>
        LET r == src.Rect
            steps == ret.call.steps
        IN  /\ ret.call.panic = "none"
            /\ Len(steps) = Dx(r) * Dy(r)
            /\ \A i \in DOMAIN steps :
                   LET x == r.MinX + ((i - 1) % Dx(r))
                       y == r.MinY + ((i - 1) \div Dx(r))
                   IN  /\ steps[i].sp = PixOffsetRGBA(src, x, y)
                       /\ steps[i].mp = PixOffsetAlpha(ret.call.mask, x, y)
                       /\ steps[i].sp + 3 \in DOMAIN src.Pix
                       /\ steps[i].mp \in DOMAIN ret.call.mask.Pix

\* ------------------------------------------------- properties of Content

Scoring == content.path # "none"

\* The mean of a pixel's 8-bit channels, from their true sum.
Mean(p) == (p.R + p.G + p.B) \div 3

\* The pixel pass k of the call read.
Pass(k) ==
    IF content.path = "fast" THEN contentPixelRGBA(src, 4 * k) ELSE contentPixel(src, region, k)

\* C2: for a packed RGBA source and its full bounds as region, contentRGBA
\* returns the score the generic walk of Content returns.
C2_ContentEquivalence ==
    (Scoring /\ content.path = "fast") =>
        content.score = contentGeneric(src, region).score

\* C5: when every pixel a call walks is the same, N pixels in all, the
\* score is 0 if N <= 64 and 1 if N > 64.
C5_SingleColour ==
    (Scoring /\ Cardinality({<<p.R, p.G, p.B>> : p \in content.pixels}) = 1) =>
        /\ content.score \in 0 .. 255
        /\ content.score = IF content.walked > 64 THEN 1 ELSE 0

\* C6: each pixel walked is counted in bucket floor((R + G + B) / 3), and
\* the score is the number of values Y that more than 64 pixels have as
\* their mean, at most 255.
C6_HistogramRule ==
    Scoring =>
        LET ys == {Mean(p) : p \in content.pixels}
            n == Cardinality({ Y \in ys :
                     Cardinality({k \in 0 .. content.walked - 1 : Mean(Pass(k)) = Y}) > 64 })
        IN  /\ \A p \in content.pixels : p.bucket = Mean(p)
            /\ content.score = IF n > 255 THEN 255 ELSE n

=============================================================================
